---------------------------- MODULE Spec2Model ----------------------------
(***************************************************************************)
(* A model of the plog structured logger: the logger facade (level gate,   *)
(* entry assembly, locking, Fatal), derived loggers (With), caller         *)
(* resolution with helper frames, the escaping engine and the text         *)
(* renderer.                                                               *)
(*                                                                         *)
(* Strings are sequences of code points (integers).  A byte that is not    *)
(* valid UTF-8 is the pseudo code point BadByte; Go's range loop decodes   *)
(* it to utf8.RuneError (U+FFFD).  Styling is disabled throughout: every   *)
(* lipgloss Render transform is the identity.                              *)
(***************************************************************************)
EXTENDS Integers, Sequences, FiniteSets, TLC

VARIABLES
    \* ---- escaping engine (text.go) ----
    eStr,        \* input string of escapeStringForOutput
    eQuotes,     \* its escapeQuotes argument
    eOut,        \* its result
    eDone,       \* whether the call has returned
    \* ---- caller resolver (logger.Helper / logger.fillLoc) ----
    stack,       \* user call stack, most recent frame first
    helpers,     \* logger.helpers: the set of function names marked helper
    loc,         \* the location fillLoc reports to the log call in progress
    locFrames,   \* the frames that call of fillLoc captured
    \* ---- text renderer (Logger.textFormatter) ----
    rKvs,        \* the key/value sequence handed to the formatter
    rOut,        \* bytes appended to the render buffer
    rDone,       \* whether the formatter has returned
    \* ---- derived loggers (logger.With) ----
    heap,        \* backing arrays of the keyvals slices
    loggers,     \* every logger's keyvals slice header and creation record
    \* ---- logger facade (logger.log, setters, Fatal) ----
    cfg,         \* configuration fields of the logger
    b,           \* logger.b, the render buffer
    mu,          \* logger.mu, the RWMutex
    sink,        \* the writes received by the sink, in order
    th,          \* per goroutine: position and locals
    exited,      \* os.Exit has been called
    nops         \* number of operations started

evars == <<eStr, eQuotes, eOut, eDone>>
cvars == <<stack, helpers, loc, locFrames>>
rvars == <<rKvs, rOut, rDone>>
wvars == <<heap, loggers>>
lvars == <<cfg, b, mu, sink, th, exited, nops>>
vars == <<evars, cvars, rvars, wvars, lvars>>

-----------------------------------------------------------------------------
(* Bounds of the model.                                                    *)
MaxStrLen == 3

-----------------------------------------------------------------------------
(* Code points.                                                            *)
BEL == 7
BS == 8
TAB == 9
NL == 10
VT == 11
FF == 12
CR == 13
SOH == 1
SPACE == 32
QUOTE == 34
MINUS == 45
EQUALS == 61
BACKSLASH == 92
TILDE == 126
DEL == 127
RuneError == 65533
TagChar == 917505
BadByte == -1

Min(x, y) == IF x < y THEN x ELSE y

RECURSIVE Pow2(_)
Pow2(n) == IF n = 0 THEN 1 ELSE 2 * Pow2(n - 1)

\* r >> s & 0xF
Nibble(r, s) == (r \div Pow2(s)) % 16

\* lowerhex[n]
lowerhex(n) == IF n < 10 THEN 48 + n ELSE 87 + n

\* unicode.IsPrint, on the code points the model uses: the printable ASCII
\* range, and U+FFFD (category So).  DEL, the C0 controls and U+E0001
\* (category Cf) are not printable.
IsPrint(r) == (SPACE <= r /\ r <= TILDE) \/ r = RuneError

\* utf8.ValidRune
ValidRune(r) == (0 <= r /\ r < 55296) \/ (57343 < r /\ r <= 1114111)

\* for _, r := range str: an invalid byte decodes to utf8.RuneError
DecodeRune(c) == IF c = BadByte THEN RuneError ELSE c

needsEscaping(str) ==
    \E i \in 1..Len(str) :
        LET r == DecodeRune(str[i]) IN ~IsPrint(r) \/ r = QUOTE

\* a faulty variant of HexEscape2: the two hex digits in the wrong order
HexEscape2_swapped(r) ==
    <<BACKSLASH, 120, lowerhex(r % 16), lowerhex((r % 256) \div 16)>>

\* `\x` + lowerhex[byte(r)>>4] + lowerhex[byte(r)&0xF]
HexEscape2(r) ==
    <<BACKSLASH, 120, lowerhex((r % 256) \div 16), lowerhex(r % 16)>>

\* `\u` + four hex digits
HexEscape4(r) ==
    <<BACKSLASH, 117>> \o [k \in 1..4 |-> lowerhex(Nibble(r, 16 - 4 * k))]

\* `\U` + eight hex digits
HexEscape8(r) ==
    <<BACKSLASH, 85>> \o [k \in 1..8 |-> lowerhex(Nibble(r, 32 - 4 * k))]

\* one iteration of the loop of escapeStringForOutput
escapeRune(r, escapeQuotes) ==
    IF escapeQuotes /\ r = QUOTE THEN <<BACKSLASH, QUOTE>>
    ELSE IF IsPrint(r) THEN <<r>>
    ELSE CASE r = BEL -> <<BACKSLASH, 97>>
           [] r = BS  -> <<BACKSLASH, 98>>
           [] r = FF  -> <<BACKSLASH, 102>>
           [] r = NL  -> <<BACKSLASH, 110>>
           [] r = CR  -> <<BACKSLASH, 114>>
           [] r = TAB -> <<BACKSLASH, 116>>
           [] r = VT  -> <<BACKSLASH, 118>>
           [] OTHER ->
                IF r < SPACE THEN HexEscape2(r)
                ELSE IF ~ValidRune(r) THEN HexEscape4(RuneError)
                ELSE IF r < 65536 THEN HexEscape4(r)
                ELSE HexEscape8(r)

RECURSIVE escapeLoop(_, _)
escapeLoop(str, escapeQuotes) ==
    IF str = <<>> THEN <<>>
    ELSE escapeRune(DecodeRune(Head(str)), escapeQuotes)
             \o escapeLoop(Tail(str), escapeQuotes)

escapeStringForOutput(str, escapeQuotes) ==
    IF ~needsEscaping(str) THEN str ELSE escapeLoop(str, escapeQuotes)


-----------------------------------------------------------------------------
(* Reading an escaped string back (the inverse the escape syntax denotes,  *)
(* as strconv.Unquote reads it).  Not part of the program: it states the   *)
(* round trip.  A malformed escape yields the marker Malformed.            *)
Malformed == 0 - 2

IsHex(c) == (48 <= c /\ c <= 57) \/ (97 <= c /\ c <= 102)
HexVal(c) == IF c <= 57 THEN c - 48 ELSE c - 87

RECURSIVE HexNum(_)
HexNum(ds) ==
    IF ds = <<>> THEN 0
    ELSE 16 * HexNum(SubSeq(ds, 1, Len(ds) - 1)) + HexVal(ds[Len(ds)])

Drop(s, n) == SubSeq(s, n + 1, Len(s))

RECURSIVE Unescape(_)
UnescapeHex(s, n) ==
    IF Len(s) >= 2 + n /\ \A i \in 3..(2 + n) : IsHex(s[i])
    THEN <<HexNum(SubSeq(s, 3, 2 + n))>> \o Unescape(Drop(s, 2 + n))
    ELSE <<Malformed>>

Unescape(s) ==
    IF s = <<>> THEN <<>>
    ELSE IF Head(s) # BACKSLASH THEN <<Head(s)>> \o Unescape(Tail(s))
    ELSE IF Len(s) < 2 THEN <<Malformed>>
    ELSE CASE s[2] = 97  -> <<BEL>> \o Unescape(Drop(s, 2))
           [] s[2] = 98  -> <<BS>> \o Unescape(Drop(s, 2))
           [] s[2] = 102 -> <<FF>> \o Unescape(Drop(s, 2))
           [] s[2] = 110 -> <<NL>> \o Unescape(Drop(s, 2))
           [] s[2] = 114 -> <<CR>> \o Unescape(Drop(s, 2))
           [] s[2] = 116 -> <<TAB>> \o Unescape(Drop(s, 2))
           [] s[2] = 118 -> <<VT>> \o Unescape(Drop(s, 2))
           [] s[2] = QUOTE -> <<QUOTE>> \o Unescape(Drop(s, 2))
           [] s[2] = BACKSLASH -> <<BACKSLASH>> \o Unescape(Drop(s, 2))
           [] s[2] = 120 -> UnescapeHex(s, 2)
           [] s[2] = 117 -> UnescapeHex(s, 4)
           [] s[2] = 85  -> UnescapeHex(s, 8)
           [] OTHER -> <<Malformed>>

\* a raw control character: C0, DEL or C1
IsControl(c) == (0 <= c /\ c < SPACE) \/ (DEL <= c /\ c < 160)
HasControl(s) == \E i \in 1..Len(s) : IsControl(s[i])

-----------------------------------------------------------------------------
(* Idle values of each component's variables, for the specifications that  *)
(* do not exercise that component.                                         *)
EscapeIdle == eStr = <<>> /\ eQuotes = FALSE /\ eOut = <<>> /\ eDone = FALSE

\* what a step of one component leaves alone: the other components
EscapeOnly == UNCHANGED <<cvars, rvars, wvars, lvars>>
CallerOnly == UNCHANGED <<evars, rvars, wvars, lvars>>
RenderOnly == UNCHANGED <<evars, cvars, wvars, lvars>>
WithOnly == UNCHANGED <<evars, cvars, rvars, lvars>>
LoggerOnly == UNCHANGED <<evars, cvars, rvars, wvars>>

Strings(A, n) == UNION {[1..k -> A] : k \in 0..n}

-----------------------------------------------------------------------------
(* The escaping engine: escapeStringForOutput applied to every string of   *)
(* up to MaxStrLen code units over EscapeAlphabet.                         *)
EscapeAlphabet == {110, QUOTE, BACKSLASH, NL, SOH, DEL, TagChar, BadByte}

EscapeInit ==
    /\ eStr \in Strings(EscapeAlphabet, MaxStrLen)
    /\ eQuotes \in BOOLEAN
    /\ eOut = <<>>
    /\ eDone = FALSE

EscapeCall ==
    /\ ~eDone
    /\ eOut' = escapeStringForOutput(eStr, eQuotes)
    /\ eDone' = TRUE
    /\ UNCHANGED <<eStr, eQuotes>>
    /\ EscapeOnly

-----------------------------------------------------------------------------
(* Claim C9 *)

\* the input holds no backslash and no invalid UTF-8
PlainInput(s) == \A i \in 1..Len(s) : s[i] # BACKSLASH /\ s[i] # BadByte

\* C9, first half: the result of escaping a string that contains a control
\* character contains no raw control character.
C9_NoRawControl ==
    (eDone /\ HasControl(eStr)) => ~HasControl(eOut)

\* valid UTF-8
ValidInput(s) == \A i \in 1..Len(s) : s[i] # BadByte

\* C9 as stated: for every string s that contains a control character and
\* either value of escapeQuotes, the escaped result holds no raw control
\* character and un-escaping it reproduces s (stated here for the strings
\* that are valid UTF-8).
C9_RoundTrip_Original ==
    (eDone /\ HasControl(eStr) /\ ValidInput(eStr)) =>
        (~HasControl(eOut) /\ Unescape(eOut) = eStr)

\* C9 as amended: for every valid-UTF-8 string s without a backslash that
\* contains a control character, and either value of escapeQuotes with
\* quotes escaped (escapeQuotes true) or not, the escaped result holds no
\* raw control character and un-escaping it reproduces s; for every string
\* with a control character the result holds no raw control character.
C9_RoundTrip ==
    /\ C9_NoRawControl
    /\ (eDone /\ HasControl(eStr) /\ PlainInput(eStr)) =>
           Unescape(eOut) = eStr

\* C9 witness: a string with a quote, a newline and a C0 control has been
\* escaped with escapeQuotes set, and the result differs from the input.
C9_Witness ==
    /\ eDone /\ eQuotes
    /\ eStr = <<QUOTE, NL, SOH>>
    /\ eOut = <<BACKSLASH, QUOTE, BACKSLASH, 110, BACKSLASH, 120, 48, 49>>

-----------------------------------------------------------------------------
(* The caller resolver.  A frame is [fn, line]: the function and the line  *)
(* it is executing (the call site of the next inner frame).  Stacks are    *)
(* written most recent frame first, as runtime.Callers records them.       *)
MaxDepth == 3
MaxLine == 2

\* const maxStackLen = 50 in fillLoc
maxStackLen == 50

\* logger.callerOffset as New leaves it (the zero value)
callerOffset == 0

Funcs == {"main", "f", "g"}
Frame(fn, line) == [fn |-> fn, line |-> line]
ZeroFrame == Frame("", 0)
NoLoc == [fn |-> "", line |-> 0 - 1, hs |-> {}]

CallerIdle ==
    stack = <<>> /\ helpers = {} /\ loc = NoLoc /\ locFrames = <<>>

\* runtime.Caller(skip): 0 identifies the caller of Caller
RuntimeCaller(full, skip) ==
    IF skip + 1 <= Len(full) THEN full[skip + 1] ELSE ZeroFrame

\* location(skip), called with the frames above location's own
location(above, skip) == RuntimeCaller(<<Frame("location", 0)>> \o above, skip + 1)

\* logger.helper(skip): the function name handed to helpers.LoadOrStore
helper(above, skip) == location(<<Frame("helper", 0)>> \o above, skip + 1).fn

\* runtime.Callers(skip, pc[:]): 0 identifies the frame of Callers itself;
\* at most len(pc) frames are recorded
RuntimeCallers(full, skip) ==
    LET rest == Drop(full, skip) IN SubSeq(rest, 1, Min(Len(rest), maxStackLen))

\* a faulty variant of fillLocLoop: the helper set is ignored
fillLocLoop_nohelpers(frames, hs) ==
    IF frames = <<>> THEN ZeroFrame ELSE Head(frames)

\* the loop of fillLoc over frames.Next()
RECURSIVE fillLocLoop(_, _)
fillLocLoop(frames, hs) ==
    IF frames = <<>> THEN ZeroFrame
    ELSE LET frame == Head(frames)
             more == Len(frames) > 1
             isHelper == frame.fn \in hs
         IN IF ~isHelper \/ ~more THEN frame
            ELSE fillLocLoop(Tail(frames), hs)

\* the frames fillLoc(skip) captures, called with the frames above its own
fillLocFrames(above, skip) ==
    RuntimeCallers(<<Frame("Callers", 0), Frame("fillLoc", 0)>> \o above, skip + 2)

fillLoc(above, skip, hs) == fillLocLoop(fillLocFrames(above, skip), hs)

CallerInit ==
    /\ stack = <<Frame("main", 0)>>
    /\ helpers = {}
    /\ loc = NoLoc
    /\ locFrames = <<>>

AtLine(stk, line) == <<Frame(Head(stk).fn, line)>> \o Tail(stk)

\* the running function calls fn from one of its lines
CallFn(fn, line) ==
    /\ Len(stack) < MaxDepth
    /\ stack' = <<Frame(fn, 0)>> \o AtLine(stack, line)
    /\ loc' = NoLoc /\ locFrames' = <<>>
    /\ UNCHANGED helpers
    /\ CallerOnly

\* the running function returns
ReturnFn ==
    /\ Len(stack) > 1
    /\ stack' = Tail(stack)
    /\ loc' = NoLoc /\ locFrames' = <<>>
    /\ UNCHANGED helpers
    /\ CallerOnly

\* the running function calls l.Helper() from one of its lines
Helper(line) ==
    /\ stack' = AtLine(stack, line)
    /\ helpers' = helpers \cup {helper(<<Frame("Helper", 0)>> \o stack', 1)}
    /\ loc' = NoLoc /\ locFrames' = <<>>
    /\ CallerOnly

\* the running function calls a leveled method (l.Info -> l.log -> l.fillLoc)
\* from one of its lines, with caller reporting on
LogWithCaller(line) ==
    /\ stack' = AtLine(stack, line)
    /\ LET above == <<Frame("log", 0), Frame("Info", 0)>> \o stack'
           fr == fillLoc(above, callerOffset + 2, helpers)
       IN /\ loc' = [fn |-> fr.fn, line |-> fr.line, hs |-> helpers]
          /\ locFrames' = fillLocFrames(above, callerOffset + 2)
    /\ UNCHANGED helpers
    /\ CallerOnly

-----------------------------------------------------------------------------
(* Claim C8 *)

NonHelperIdx == {i \in 1..Len(locFrames) : locFrames[i].fn \notin loc.hs}
ReportedFrame == Frame(loc.fn, loc.line)

C8_Resolved ==
    loc # NoLoc =>
      /\ Len(locFrames) >= 1
      /\ locFrames[1].fn \in Funcs
      /\ IF NonHelperIdx # {}
         THEN \E i \in NonHelperIdx :
                 /\ \A j \in NonHelperIdx : i <= j
                 /\ ReportedFrame = locFrames[i]
         ELSE ReportedFrame = locFrames[Len(locFrames)]
      /\ (Len(locFrames) >= 2 /\ locFrames[1].fn \in loc.hs
            /\ locFrames[2].fn \notin loc.hs)
         => ReportedFrame = locFrames[2]

\* C8: with caller reporting on, a leveled call made by helper-marked
\* functions reports the first captured frame, walking outward from the
\* call, whose function is not in the helper set (for a marked F called from
\* an unmarked function: the call site in F's caller); when every captured
\* frame is a helper the last captured frame is reported; and the helper
\* set only grows.
C8_CallerResolution ==
    [](C8_Resolved) /\ [][helpers \subseteq helpers']_vars

\* C8 witness: two stacked helper-marked wrappers f and g under main; the
\* call inside the innermost wrapper reports main's call site.
C8_Witness ==
    /\ loc # NoLoc
    /\ Len(locFrames) = 3
    /\ locFrames[1].fn \in loc.hs /\ locFrames[2].fn \in loc.hs
    /\ locFrames[1].fn # locFrames[2].fn
    /\ locFrames[3].fn = "main" /\ "main" \notin loc.hs
    /\ loc.fn = "main" /\ loc.line = locFrames[3].line

-----------------------------------------------------------------------------
(* Values of type interface{}: a dynamic type tag and a payload.           *)
Str(s) == [t |-> "string", v |-> s]
Lvl(n) == [t |-> "Level", v |-> <<n>>]
Time(n) == [t |-> "Time", v |-> <<n>>]
Nil == [t |-> "nil", v |-> <<>>]
\* what an index past the end of keyvals reads: a run-time panic
OutOfRange == [t |-> "panic", v |-> <<>>]

\* Level values (the type is declared outside the files modelled here):
\* Debug < Info < Warn < Error < Fatal, the OffLevel threshold above every
\* real level, and noLevel, which no threshold filters.
DebugLevel == 0 - 1
InfoLevel == 0
WarnLevel == 1
ErrorLevel == 2
FatalLevel == 3
OffLevel == 4
noLevel == 5
RealLevels == {DebugLevel, InfoLevel, WarnLevel, ErrorLevel, FatalLevel}

\* the reserved keys: "ts", "lvl", "caller", "prefix", "msg"
TimestampKey == Str(<<116, 115>>)
LevelKey == Str(<<108, 118, 108>>)
CallerKey == Str(<<99, 97, 108, 108, 101, 114>>)
PrefixKey == Str(<<112, 114, 101, 102, 105, 120>>)
MessageKey == Str(<<109, 115, 103>>)
ReservedKeys == {TimestampKey, LevelKey, CallerKey, PrefixKey, MessageKey}

\* separator = "=" and indentSeparator = "  | " (with U+2502)
separator == <<EQUALS>>
indentSeparator == <<SPACE, SPACE, 9474, SPACE>>

\* the upper-case level names levelStyle renders: the first letter of
\* DEBUG, INFO, WARN, ERROR, FATAL stands for the word
LevelString(n) ==
    CASE n = DebugLevel -> <<68>>
      [] n = InfoLevel  -> <<73>>
      [] n = WarnLevel  -> <<87>>
      [] n = ErrorLevel -> <<69>>
      [] n = FatalLevel -> <<70>>
      [] OTHER -> <<>>

\* t.Format(layout): a digit stands for the instant, followed by the
\* layout's literal text
TimeFormat(n, layout) == <<48 + n>> \o layout

\* DefaultTimeFormat, as the single letter "T"
DefaultTimeFormat == <<84>>

\* fmt.Sprint(v) and fmt.Sprintf("%+v", v): a string is itself, nil is
\* "<nil>", a Level and a time.Time print through their String methods
Sprint(x) ==
    CASE x.t = "string" -> x.v
      [] x.t = "nil"    -> <<60, 110, 105, 108, 62>>
      [] x.t = "Level"  -> LevelString(x.v[1])
      [] x.t = "Time"   -> TimeFormat(x.v[1], <<>>)

Contains(s, c) == \E i \in 1..Len(s) : s[i] = c

\* strings.IndexByte(str, '\n'), 1-based; 0 when absent
IndexNL(s) ==
    IF Contains(s, NL)
    THEN CHOOSE i \in 1..Len(s) : s[i] = NL /\ \A j \in 1..(i - 1) : s[j] # NL
    ELSE 0

isNormal(r) == MINUS <= r /\ r <= TILDE

needsQuoting(s) == \E i \in 1..Len(s) : ~isNormal(DecodeRune(s[i]))

\* a faulty variant of writeSpace: the space is written before every field
writeSpace_always(first) == <<SPACE>>

\* writeSpace(w, first)
writeSpace(first) == IF first THEN <<>> ELSE <<SPACE>>

\* a faulty variant of writeIndent: the last segment always gets its line break
RECURSIVE writeIndent_alwaysnl(_, _, _)
writeIndent_alwaysnl(s, indent, newline) ==
    LET nl == IndexNL(s) IN
    IF nl = 0
    THEN IF s # <<>>
         THEN indent \o escapeStringForOutput(s, FALSE) \o <<NL>>
         ELSE <<>>
    ELSE indent \o escapeStringForOutput(SubSeq(s, 1, nl - 1), FALSE) \o <<NL>>
             \o writeIndent_alwaysnl(Drop(s, nl), indent, newline)

\* Logger.writeIndent
RECURSIVE writeIndent(_, _, _)
writeIndent(s, indent, newline) ==
    LET nl == IndexNL(s) IN
    IF nl = 0
    THEN IF s # <<>>
         THEN indent \o escapeStringForOutput(s, FALSE)
                  \o (IF newline THEN <<NL>> ELSE <<>>)
         ELSE <<>>
    ELSE indent \o escapeStringForOutput(SubSeq(s, 1, nl - 1), FALSE) \o <<NL>>
             \o writeIndent(Drop(s, nl), indent, newline)

\* keyvals[j], 1-based
At(keyvals, j) == IF j <= Len(keyvals) THEN keyvals[j] ELSE OutOfRange

\* the default case of the switch in textFormatter: a custom pair
customPair(k, v, firstKey, moreKeys) ==
    LET key == Sprint(k)
        val0 == Sprint(v)
        raw == val0 = <<>>
        val == IF raw THEN <<QUOTE, QUOTE>> ELSE val0
    IN IF key = <<>> THEN <<>>
       ELSE IF Contains(val, NL)
       THEN <<NL, SPACE, SPACE>> \o key \o separator \o <<NL>>
                \o writeIndent(val, indentSeparator, moreKeys)
       ELSE IF ~raw /\ needsQuoting(val)
       THEN writeSpace(firstKey) \o key \o separator
                \o <<QUOTE>> \o escapeStringForOutput(val, TRUE) \o <<QUOTE>>
       ELSE writeSpace(firstKey) \o key \o separator \o val

\* one iteration of the loop of textFormatter, for the key at position i
\* (1-based): the bytes it appends to l.b
formatPair(keyvals, i, timeFormat) ==
    LET firstKey == i = 1
        moreKeys == i - 1 < Len(keyvals) - 2
        k == keyvals[i]
        v == At(keyvals, i + 1)
    IN CASE k = TimestampKey ->
              IF v.t = "Time" THEN writeSpace(firstKey) \o TimeFormat(v.v[1], timeFormat)
              ELSE <<>>
         [] k = LevelKey ->
              IF v.t = "Level" THEN writeSpace(firstKey) \o LevelString(v.v[1])
              ELSE <<>>
         [] k = CallerKey ->
              IF v.t = "string" THEN writeSpace(firstKey) \o <<60>> \o v.v \o <<62>>
              ELSE <<>>
         [] k = PrefixKey ->
              IF v.t = "string" THEN writeSpace(firstKey) \o v.v \o <<58>>
              ELSE <<>>
         [] k = MessageKey ->
              IF v # Nil THEN writeSpace(firstKey) \o Sprint(v) ELSE <<>>
         [] OTHER -> customPair(k, v, firstKey, moreKeys)

\* keyvals[i+1] is read in every iteration, before anything is written for
\* the pair: past the end it is an index-out-of-range panic
NumPairs(keyvals) == (Len(keyvals) + 1) \div 2

formatPanics(keyvals) ==
    \E p \in 1..NumPairs(keyvals) : At(keyvals, 2 * p) = OutOfRange

\* Logger.textFormatter on an even-length sequence: the bytes each
\* iteration appends, then the closing newline
textFormatter(keyvals, timeFormat) ==
    [p \in 1..(NumPairs(keyvals) + 1) |->
        IF p <= NumPairs(keyvals) THEN formatPair(keyvals, 2 * p - 1, timeFormat)
        ELSE <<NL>>]

RECURSIVE Flatten(_)
Flatten(chunks) ==
    IF chunks = <<>> THEN <<>> ELSE Head(chunks) \o Flatten(Tail(chunks))

-----------------------------------------------------------------------------
(* The text renderer on its own: textFormatter applied to every sequence   *)
(* of up to MaxPairs pairs drawn from RenderKeys x RenderVals.             *)
MaxPairs == 2

RenderIdle == rKvs = <<>> /\ rOut = <<>> /\ rDone = FALSE

\* "k", the empty key, and two reserved keys
RenderKeys == {Str(<<107>>), Str(<<>>), MessageKey, LevelKey}

\* "v", "a\nb", "a\n", "", nil, a Level, and "a b" (which needs quoting)
RenderVals ==
    {Str(<<118>>), Str(<<97, NL, 98>>), Str(<<97, NL>>), Str(<<>>), Nil,
     Lvl(InfoLevel), Str(<<97, SPACE, 98>>)}

KvsOf(ps) ==
    [j \in 1..(2 * Len(ps)) |-> ps[(j + 1) \div 2][IF j % 2 = 1 THEN 1 ELSE 2]]

RenderInit ==
    /\ rKvs \in {KvsOf(ps) : ps \in Strings(RenderKeys \X RenderVals, MaxPairs)}
    /\ rOut = <<>>
    /\ rDone = FALSE

RenderCall ==
    /\ ~rDone
    /\ ~formatPanics(rKvs)
    /\ rOut' = textFormatter(rKvs, DefaultTimeFormat)
    /\ rDone' = TRUE
    /\ UNCHANGED rKvs
    /\ RenderOnly

-----------------------------------------------------------------------------
(* Claim C10 *)

\* the p-th pair is a custom pair with a non-empty key whose display value
\* contains a newline
MultiLinePair(p) ==
    /\ rKvs[2 * p - 1] \notin ReservedKeys
    /\ Sprint(rKvs[2 * p - 1]) # <<>>
    /\ Contains(Sprint(rKvs[2 * p]), NL)

\* the newline-separated segments of a value; the empty remainder after a
\* final newline is not a segment
RECURSIVE Segments(_)
Segments(s) ==
    IF s = <<>> THEN <<>>
    ELSE IF ~Contains(s, NL) THEN <<s>>
    ELSE <<SubSeq(s, 1, IndexNL(s) - 1)>> \o Segments(Drop(s, IndexNL(s)))

\* each segment on a line of its own: marker, segment, line break
RECURSIVE SegmentLines(_)
SegmentLines(segs) ==
    IF segs = <<>> THEN <<>>
    ELSE indentSeparator \o escapeStringForOutput(Head(segs), FALSE) \o <<NL>>
             \o SegmentLines(Tail(segs))

\* line break, indented key, separator, line break, then the segment lines
Block(p) ==
    <<NL, SPACE, SPACE>> \o Sprint(rKvs[2 * p - 1]) \o <<EQUALS, NL>>
        \o SegmentLines(Segments(Sprint(rKvs[2 * p])))

IsPrefix(s, t) == Len(s) <= Len(t) /\ SubSeq(t, 1, Len(s)) = s

\* what the renderer emits from the p-th pair on, closing newline included
OutputFrom(p) == Flatten(SubSeq(rOut, p, Len(rOut)))

EndsWithOneNewline(s) ==
    /\ Len(s) >= 1 /\ s[Len(s)] = NL
    /\ Len(s) >= 2 => s[Len(s) - 1] # NL

\* no pair after the p-th emits anything
LastEmitting(p) == \A q \in (p + 1)..NumPairs(rKvs) : rOut[q] = <<>>

LastOfSequence(p) == p = NumPairs(rKvs)

EndsInNewline(s) == s # <<>> /\ s[Len(s)] = NL

\* C10 as stated: every multi-line custom pair is emitted as its block (a
\* line break, the key, the separator, a line break, then each segment
\* behind the indentation marker and followed by a line break), and the
\* entry ends with exactly one trailing newline.
C10_IndentedBlock_Original ==
    rDone =>
        \A p \in 1..NumPairs(rKvs) :
            MultiLinePair(p) =>
                /\ IsPrefix(Block(p), OutputFrom(p))
                /\ EndsWithOneNewline(Flatten(rOut))

\* C10 as amended: every multi-line custom pair is emitted as its block,
\* each segment followed by a line break; the entry ends with a newline,
\* and when nothing is emitted after the pair it ends with exactly one
\* newline if and only if the pair is the last of the sequence and its
\* value does not end in a newline (otherwise the block's last line break
\* is followed by the closing newline: two).
C10_IndentedBlock ==
    rDone =>
        \A p \in 1..NumPairs(rKvs) :
            MultiLinePair(p) =>
                /\ IsPrefix(Block(p), OutputFrom(p))
                /\ EndsInNewline(Flatten(rOut))
                /\ LastEmitting(p) =>
                     (EndsWithOneNewline(Flatten(rOut)) <=>
                        (LastOfSequence(p) /\ ~EndsInNewline(Sprint(rKvs[2 * p]))))

\* C10 witness: "k" = "a\nb" rendered after a message pair, as the block
\* "\n  k=\n  | a\n  | b" closed by the entry's newline.
C10_Witness ==
    /\ rDone
    /\ rKvs = <<MessageKey, Str(<<118>>), Str(<<107>>), Str(<<97, NL, 98>>)>>
    /\ Flatten(rOut) = <<118, NL, SPACE, SPACE, 107, EQUALS, NL>>
                          \o indentSeparator \o <<97, NL>>
                          \o indentSeparator \o <<98, NL>>

-----------------------------------------------------------------------------
(* Claim C11 *)

\* the p-th pair renders on the line (it is not an indented block)
SingleLinePair(p) == ~MultiLinePair(p)

\* the renderer wrote something for the p-th pair
Emits(p) == rOut[p] # <<>>

\* the text of the p-th field without any separator: the pair rendered on
\* its own
FieldText(p) ==
    formatPair(<<rKvs[2 * p - 1], rKvs[2 * p]>>, 1, DefaultTimeFormat)

\* no pair before the p-th emitted anything
FirstEmitted(p) == \A q \in 1..(p - 1) : ~Emits(q)

\* C11 as stated: every emitted single-line field is its text preceded by
\* exactly one space, except the first field actually emitted, which has
\* no space before it, whichever earlier pairs were skipped.
C11_FieldSeparation_Original ==
    rDone =>
        \A p \in 1..NumPairs(rKvs) :
            (SingleLinePair(p) /\ Emits(p)) =>
                rOut[p] = (IF FirstEmitted(p) THEN <<>> ELSE <<SPACE>>)
                              \o FieldText(p)

\* C11 as amended: every emitted single-line field is its text preceded by
\* exactly one space, except the field of the first pair of the sequence,
\* which has no space before it; a field emitted by a later pair has the
\* space before it also when every pair before it was skipped, and a
\* skipped pair (one that has no text) writes nothing.
C11_FieldSeparation ==
    rDone =>
        \A p \in 1..NumPairs(rKvs) :
            SingleLinePair(p) =>
                \/ rOut[p] = <<>> /\ FieldText(p) = <<>>
                \/ rOut[p] = (IF p = 1 THEN <<>> ELSE <<SPACE>>) \o FieldText(p)

\* C11 witness: a level pair, then "k" = "v": rendered as "I k=v" and the
\* closing newline, one space between the two fields and none before the
\* first.
C11_Witness ==
    /\ rDone
    /\ rKvs = <<LevelKey, Lvl(InfoLevel), Str(<<107>>), Str(<<118>>)>>
    /\ Flatten(rOut) = <<73, SPACE, 107, EQUALS, 118, NL>>

-----------------------------------------------------------------------------
(* Derived loggers.  A keyvals slice is a header [arr, len, cap] over a    *)
(* backing array of the heap (arr = 0: the nil slice).  Each logger also   *)
(* records `made`, the bound fields it was created with.                   *)
MaxLoggers == 6

WithIdle == heap = <<>> /\ loggers = <<>>

\* the growth rule of append (runtime.growslice of the go 1.22 toolchain
\* named by go.mod), for capacities below its 256-element threshold; the
\* 16-byte elements of []interface{} fill their size class exactly
nextslicecap(newLen, oldCap) ==
    IF newLen > 2 * oldCap THEN newLen ELSE 2 * oldCap

\* the elements a slice header denotes
SliceElems(hp, sl) == IF sl.arr = 0 THEN <<>> ELSE SubSeq(hp[sl.arr], 1, sl.len)

\* append(s, kv...): in place when the capacity suffices, else into a
\* fresh array holding a copy
GoAppend(hp, sl, kv) ==
    LET newLen == sl.len + Len(kv) IN
    IF kv = <<>> THEN [heap |-> hp, slice |-> sl]
    ELSE IF newLen <= sl.cap
    THEN [heap |-> [hp EXCEPT ![sl.arr] =
                       [j \in 1..sl.cap |->
                           IF sl.len < j /\ j <= newLen THEN kv[j - sl.len] ELSE @[j]]],
          slice |-> [arr |-> sl.arr, len |-> newLen, cap |-> sl.cap]]
    ELSE LET newCap == nextslicecap(newLen, sl.cap)
             elems == SliceElems(hp, sl) \o kv
         IN [heap |-> Append(hp, [j \in 1..newCap |->
                                     IF j <= newLen THEN elems[j] ELSE Nil]),
             slice |-> [arr |-> Len(hp) + 1, len |-> newLen, cap |-> newCap]]

\* the fields passed to one With call: "x", "y", or the pair "x", "y"
WithArgs == {<<>>, <<Str(<<120>>)>>, <<Str(<<121>>)>>, <<Str(<<120>>), Str(<<121>>)>>}

\* New(): keyvals is the nil slice
WithInit ==
    /\ heap = <<>>
    /\ loggers = <<[arr |-> 0, len |-> 0, cap |-> 0, made |-> <<>>]>>

\* l.With(kv...) on the i-th logger
With(i, kv) ==
    /\ Len(loggers) < MaxLoggers
    /\ LET l == loggers[i]
           r == GoAppend(heap, l, kv)
       IN /\ heap' = r.heap
          /\ loggers' = Append(loggers,
                 [arr |-> r.slice.arr, len |-> r.slice.len, cap |-> r.slice.cap,
                  made |-> SliceElems(heap, l) \o kv])
    /\ WithOnly

-----------------------------------------------------------------------------
(* Claim C4 *)

\* C4: every logger's bound-field sequence is the one it was created with
\* (its parent's sequence at derive time followed by the fields passed to
\* With), whatever With calls were made since.
C4_CopyOnDerive ==
    \A i \in 1..Len(loggers) : SliceElems(heap, loggers[i]) = loggers[i].made

-----------------------------------------------------------------------------
(* The logger facade: one logger shared by goroutines.  Every method is a  *)
(* sequence of steps of the calling goroutine t; th[t].pc is its position. *)
NumThreads == 2
MaxOps == 2
MaxCalls == 1

Threads == DOMAIN th

\* "MISSING_VALUE", as the single letter "M"
MISSING_VALUE == Str(<<77>>)

\* fmt.Sprintf("<%s:%d>", trimCallerPath(file), line) for the call site of
\* the goroutine, as "<c>"
CallerString == <<60, 99, 62>>

IdleThread ==
    [pc |-> "idle", op |-> "none", level |-> noLevel, msg |-> Nil,
     args |-> <<>>, keyvals |-> <<>>, kvs |-> <<>>, accepted |-> FALSE,
     wrote |-> 0, line |-> <<>>, panicking |-> FALSE, fatal |-> FALSE,
     field |-> "none", val |-> Nil, early |-> FALSE]

\* New(WithOutput(&buf)): the defaults of New over a sink that is no terminal
NewLogger ==
    [w |-> "buf", level |-> InfoLevel, prefix |-> <<>>, timeFunc |-> 0,
     timeFormat |-> DefaultTimeFormat, formatter |-> "TextFormatter",
     caller |-> FALSE, noStyles |-> TRUE, timestamp |-> FALSE,
     keyvals |-> <<>>]

LoggerIdle ==
    /\ cfg = NewLogger /\ b = <<>> /\ mu = [w |-> 0, r |-> {}]
    /\ sink = <<>> /\ th = <<>> /\ exited = FALSE /\ nops = 0

\* a faulty variant of levelAllowed: the comparison is not strict
levelAllowed_strict(threshold, level) == ~(threshold >= level)

\* the level gate of log: "if l.level > level { return }"
levelAllowed(threshold, level) == ~(threshold > level)

\* a faulty variant of assemble: per-call keyvals before the bound fields
assemble_callfirst(c, level, msg, keyvals) ==
    (IF c.timestamp THEN <<TimestampKey, Time(c.timeFunc)>> ELSE <<>>)
        \o (IF level # noLevel THEN <<LevelKey, Lvl(level)>> ELSE <<>>)
        \o (IF c.caller THEN <<CallerKey, Str(CallerString)>> ELSE <<>>)
        \o (IF c.prefix # <<>> THEN <<PrefixKey, Str(c.prefix)>> ELSE <<>>)
        \o (IF msg # Nil THEN <<MessageKey, Str(Sprint(msg))>> ELSE <<>>)
        \o keyvals
        \o c.keyvals

\* the sequence kvs that log builds
assemble(c, level, msg, keyvals) ==
    (IF c.timestamp THEN <<TimestampKey, Time(c.timeFunc)>> ELSE <<>>)
        \o (IF level # noLevel THEN <<LevelKey, Lvl(level)>> ELSE <<>>)
        \o (IF c.caller THEN <<CallerKey, Str(CallerString)>> ELSE <<>>)
        \o (IF c.prefix # <<>> THEN <<PrefixKey, Str(c.prefix)>> ELSE <<>>)
        \o (IF msg # Nil THEN <<MessageKey, Str(Sprint(msg))>> ELSE <<>>)
        \o c.keyvals
        \o keyvals

\* "if len(keyvals)%2 != 0 { keyvals = append(keyvals, "MISSING_VALUE") }":
\* the new value of the local keyvals
padKeyvals(keyvals) ==
    IF Len(keyvals) % 2 # 0 THEN Append(keyvals, MISSING_VALUE) ELSE keyvals

\* the bytes textFormatter has appended to l.b when it returns or panics:
\* the iterations before a panicking one have been written
formatted(kvs, timeFormat) ==
    IF formatPanics(kvs)
    THEN Flatten([p \in 1..(NumPairs(kvs) - 1) |->
                     formatPair(kvs, 2 * p - 1, timeFormat)])
    ELSE Flatten(textFormatter(kvs, timeFormat))

Running == ~exited

\* mu.Lock() can return
CanLock == mu.w = 0 /\ mu.r = {}

\* l.Debug / l.Info / l.Warn / l.Error / l.Print (level): the call of log
LeveledCall(t, level, msg, kv) ==
    /\ Running /\ nops > 0 /\ th[t].pc = "idle"
    /\ nops' = nops - 1
    /\ th' = [th EXCEPT ![t] = [IdleThread EXCEPT !.pc = "lock", !.op = "log",
                 !.level = level, !.msg = msg, !.args = kv, !.keyvals = kv]]
    /\ UNCHANGED <<cfg, b, mu, sink, exited>>
    /\ LoggerOnly

\* l.Fatal: the call of log(FatalLevel, ...), to be followed by os.Exit(1)
Fatal(t, msg, kv) ==
    /\ Running /\ nops > 0 /\ th[t].pc = "idle"
    /\ nops' = nops - 1
    /\ th' = [th EXCEPT ![t] = [IdleThread EXCEPT !.pc = "lock", !.op = "log",
                 !.level = FatalLevel, !.msg = msg, !.args = kv, !.keyvals = kv,
                 !.fatal = TRUE]]
    /\ UNCHANGED <<cfg, b, mu, sink, exited>>
    /\ LoggerOnly

\* log: l.mu.Lock()
LogLock(t) ==
    /\ Running /\ th[t].pc = "lock" /\ CanLock
    /\ mu' = [mu EXCEPT !.w = t]
    /\ th' = [th EXCEPT ![t].pc = "body"]
    /\ UNCHANGED <<cfg, b, sink, exited, nops>>
    /\ LoggerOnly

\* log: the discard check, the level gate, and the assembly of kvs
LogBody(t) ==
    /\ Running /\ th[t].pc = "body"
    /\ IF cfg.w = "Discard" \/ ~levelAllowed(cfg.level, th[t].level)
       THEN th' = [th EXCEPT ![t].pc = "reset"]
       ELSE th' = [th EXCEPT ![t].pc = "format", ![t].accepted = TRUE,
                      ![t].kvs = assemble(cfg, th[t].level, th[t].msg, th[t].keyvals),
                      ![t].keyvals = padKeyvals(th[t].keyvals)]
    /\ UNCHANGED <<cfg, b, mu, sink, exited, nops>>
    /\ LoggerOnly

\* log: l.textFormatter(kvs...), which appends to l.b and may panic
LogFormat(t) ==
    /\ Running /\ th[t].pc = "format"
    /\ b' = b \o formatted(th[t].kvs, cfg.timeFormat)
    /\ th' = [th EXCEPT ![t].pc = IF formatPanics(th[t].kvs) THEN "reset" ELSE "write",
                        ![t].panicking = formatPanics(th[t].kvs)]
    /\ UNCHANGED <<cfg, mu, sink, exited, nops>>
    /\ LoggerOnly

\* log: l.w.Write(l.b.Bytes())
LogWrite(t) ==
    /\ Running /\ th[t].pc = "write"
    /\ sink' = IF cfg.w = "Discard" THEN sink ELSE Append(sink, b)
    /\ th' = [th EXCEPT ![t].pc = "reset", ![t].wrote = @ + 1, ![t].line = b]
    /\ UNCHANGED <<cfg, b, mu, exited, nops>>
    /\ LoggerOnly

\* log: the deferred l.b.Reset()
LogReset(t) ==
    /\ Running /\ th[t].pc = "reset"
    /\ b' = <<>>
    /\ th' = [th EXCEPT ![t].pc = "unlock"]
    /\ UNCHANGED <<cfg, mu, sink, exited, nops>>
    /\ LoggerOnly

\* log: the deferred l.mu.Unlock(); then log returns, or the panic of the
\* formatter leaves log and the method that called it
LogUnlock(t) ==
    /\ Running /\ th[t].pc = "unlock"
    /\ mu' = [mu EXCEPT !.w = 0]
    /\ th' = [th EXCEPT ![t] =
                 IF th[t].panicking THEN [th[t] EXCEPT !.pc = "panicked"]
                 ELSE IF th[t].fatal THEN [th[t] EXCEPT !.pc = "exit"]
                 ELSE IdleThread]
    /\ UNCHANGED <<cfg, b, sink, exited, nops>>
    /\ LoggerOnly

\* Fatal: os.Exit(1)
FatalExit(t) ==
    /\ Running /\ th[t].pc = "exit"
    /\ exited' = TRUE
    /\ th' = [th EXCEPT ![t].pc = "exited"]
    /\ UNCHANGED <<cfg, b, mu, sink, nops>>
    /\ LoggerOnly

\* A setter: th[t].early says that the assignment precedes l.mu.Lock()
\* (DisableTimestamp); otherwise it follows it.
Setter(t, field, val, early) ==
    /\ Running /\ nops > 0 /\ th[t].pc = "idle"
    /\ nops' = nops - 1
    /\ th' = [th EXCEPT ![t] = [IdleThread EXCEPT
                 !.pc = IF early THEN "set" ELSE "slock",
                 !.op = "set", !.field = field, !.val = val, !.early = early]]
    /\ UNCHANGED <<cfg, b, mu, sink, exited>>
    /\ LoggerOnly

EnableTimestamp(t) == Setter(t, "timestamp", TRUE, FALSE)
DisableTimestamp(t) == Setter(t, "timestamp", FALSE, TRUE)
EnableCaller(t) == Setter(t, "caller", TRUE, FALSE)
DisableCaller(t) == Setter(t, "caller", FALSE, FALSE)
EnableStyles(t) == Setter(t, "noStyles", FALSE, FALSE)
DisableStyles(t) == Setter(t, "noStyles", TRUE, FALSE)
SetLevel(t, level) == Setter(t, "level", level, FALSE)
SetPrefix(t, prefix) == Setter(t, "prefix", prefix, FALSE)
SetTimeFormat(t, format) == Setter(t, "timeFormat", format, FALSE)
SetTimeFunction(t, f) == Setter(t, "timeFunc", f, FALSE)
SetOutput(t, w) == Setter(t, "w", w, FALSE)
SetFormatter(t, f) == Setter(t, "formatter", f, FALSE)

\* a setter: l.mu.Lock()
SetLock(t) ==
    /\ Running /\ th[t].pc = "slock" /\ CanLock
    /\ mu' = [mu EXCEPT !.w = t]
    /\ th' = [th EXCEPT ![t].pc = IF th[t].early THEN "sunlock" ELSE "set"]
    /\ UNCHANGED <<cfg, b, sink, exited, nops>>
    /\ LoggerOnly

\* a setter: the assignment to the field
SetWrite(t) ==
    /\ Running /\ th[t].pc = "set"
    /\ cfg' = [cfg EXCEPT ![th[t].field] = th[t].val]
    /\ th' = [th EXCEPT ![t].pc = IF th[t].early THEN "slock" ELSE "sunlock"]
    /\ UNCHANGED <<b, mu, sink, exited, nops>>
    /\ LoggerOnly

\* a setter: the deferred l.mu.Unlock()
SetUnlock(t) ==
    /\ Running /\ th[t].pc = "sunlock"
    /\ mu' = [mu EXCEPT !.w = 0]
    /\ th' = [th EXCEPT ![t] = IdleThread]
    /\ UNCHANGED <<cfg, b, sink, exited, nops>>
    /\ LoggerOnly

\* GetLevel / GetPrefix: l.mu.RLock()
Getter(t, field) ==
    /\ Running /\ nops > 0 /\ th[t].pc = "idle" /\ mu.w = 0
    /\ nops' = nops - 1
    /\ mu' = [mu EXCEPT !.r = @ \cup {t}]
    /\ th' = [th EXCEPT ![t] = [IdleThread EXCEPT !.pc = "read", !.op = "get",
                                   !.field = field]]
    /\ UNCHANGED <<cfg, b, sink, exited>>
    /\ LoggerOnly

GetLevel(t) == Getter(t, "level")
GetPrefix(t) == Getter(t, "prefix")

\* GetLevel / GetPrefix: the read of the field
GetRead(t) ==
    /\ Running /\ th[t].pc = "read"
    /\ th' = [th EXCEPT ![t].pc = "runlock", ![t].val = cfg[th[t].field]]
    /\ UNCHANGED <<cfg, b, mu, sink, exited, nops>>
    /\ LoggerOnly

\* GetLevel / GetPrefix: the deferred l.mu.RUnlock()
GetRUnlock(t) ==
    /\ Running /\ th[t].pc = "runlock"
    /\ mu' = [mu EXCEPT !.r = @ \ {t}]
    /\ th' = [th EXCEPT ![t] = IdleThread]
    /\ UNCHANGED <<cfg, b, sink, exited, nops>>
    /\ LoggerOnly

-----------------------------------------------------------------------------
(* Inputs of the logger specifications.                                    *)
Thresholds == RealLevels \cup {OffLevel}
CallLevels == {DebugLevel, InfoLevel, WarnLevel, ErrorLevel, noLevel}
\* nil and "m"
Messages == {Nil, Str(<<109>>)}
\* no fields, a lone key "k", the pair "k" = "v"
CallKeyvals == {<<>>, <<Str(<<107>>)>>, <<Str(<<107>>), Str(<<118>>)>>}
\* no bound fields, or the pair "s" = "a"
BoundKeyvals == {<<>>, <<Str(<<115>>), Str(<<97>>)>>}

-----------------------------------------------------------------------------
(* SpecLog: one goroutine calls the leveled methods and Fatal on a logger  *)
(* in any configuration.                                                   *)
LogInit ==
    /\ EscapeIdle /\ CallerIdle /\ RenderIdle /\ WithIdle
    /\ cfg \in [w : {"buf", "Discard"}, level : Thresholds,
                prefix : {<<>>, <<112>>}, timeFunc : {0},
                timeFormat : {DefaultTimeFormat}, formatter : {"TextFormatter"},
                caller : BOOLEAN, noStyles : {TRUE}, timestamp : BOOLEAN,
                keyvals : BoundKeyvals]
    /\ b = <<>> /\ mu = [w |-> 0, r |-> {}] /\ sink = <<>>
    /\ th = [t \in {1} |-> IdleThread]
    /\ exited = FALSE /\ nops = MaxCalls

LogNext ==
    \/ \E t \in Threads, level \in CallLevels, msg \in Messages, kv \in CallKeyvals :
           LeveledCall(t, level, msg, kv)
    \/ \E t \in Threads, msg \in Messages, kv \in CallKeyvals : Fatal(t, msg, kv)
    \/ \E t \in Threads : LogLock(t)
    \/ \E t \in Threads : LogBody(t)
    \/ \E t \in Threads : LogFormat(t)
    \/ \E t \in Threads : LogWrite(t)
    \/ \E t \in Threads : LogReset(t)
    \/ \E t \in Threads : LogUnlock(t)
    \/ \E t \in Threads : FatalExit(t)

SpecLog == LogInit /\ [][LogNext]_vars

-----------------------------------------------------------------------------
(* Spec: goroutines share one logger: leveled calls, every setter, and the *)
(* two getters, in any interleaving.                                       *)
Init ==
    /\ EscapeIdle /\ CallerIdle /\ RenderIdle /\ WithIdle
    /\ cfg = NewLogger
    /\ b = <<>> /\ mu = [w |-> 0, r |-> {}] /\ sink = <<>>
    /\ th = [t \in 1..NumThreads |-> IdleThread]
    /\ exited = FALSE /\ nops = MaxOps

Next ==
    \/ \E t \in Threads, level \in {InfoLevel, noLevel}, msg \in {Str(<<109>>), Str(<<110>>)},
           kv \in {<<>>, <<Str(<<107>>)>>} :
           LeveledCall(t, level, msg, kv)
    \/ \E t \in Threads : LogLock(t)
    \/ \E t \in Threads : LogBody(t)
    \/ \E t \in Threads : LogFormat(t)
    \/ \E t \in Threads : LogWrite(t)
    \/ \E t \in Threads : LogReset(t)
    \/ \E t \in Threads : LogUnlock(t)
    \/ \E t \in Threads : EnableTimestamp(t)
    \/ \E t \in Threads : DisableTimestamp(t)
    \/ \E t \in Threads : EnableCaller(t)
    \/ \E t \in Threads : DisableCaller(t)
    \/ \E t \in Threads : EnableStyles(t)
    \/ \E t \in Threads : DisableStyles(t)
    \/ \E t \in Threads, level \in {DebugLevel, OffLevel} : SetLevel(t, level)
    \/ \E t \in Threads : SetPrefix(t, <<112>>)
    \/ \E t \in Threads : SetTimeFormat(t, <<90>>)
    \/ \E t \in Threads : SetTimeFunction(t, 1)
    \/ \E t \in Threads, w \in {"buf", "Discard"} : SetOutput(t, w)
    \/ \E t \in Threads : SetFormatter(t, "TextFormatter")
    \/ \E t \in Threads : SetLock(t)
    \/ \E t \in Threads : SetWrite(t)
    \/ \E t \in Threads : SetUnlock(t)
    \/ \E t \in Threads : GetLevel(t)
    \/ \E t \in Threads : GetPrefix(t)
    \/ \E t \in Threads : GetRead(t)
    \/ \E t \in Threads : GetRUnlock(t)

Spec == Init /\ [][Next]_vars

-----------------------------------------------------------------------------
(* Claims C1, C2, C3 and C7, under SpecLog *)

\* the call of goroutine t has run log to its last step
AtReturn(t) == th[t].op = "log" /\ th[t].pc = "unlock"

\* C1: a call at level L on a logger with threshold X (and a sink that is
\* not the discard sink) writes exactly one line when L >= X and nothing
\* when L < X; under OffLevel no leveled call writes; a Print call
\* (noLevel) writes under every threshold.
C1_LevelGate ==
    \A t \in Threads :
        (AtReturn(t) /\ cfg.w # "Discard") =>
            th[t].wrote = (IF th[t].level >= cfg.level THEN 1 ELSE 0)

\* C2: an accepted call whose per-call keyvals has odd length hands the
\* formatter an even-length sequence that ends with the last key followed
\* by "MISSING_VALUE", and the call completes and writes its line.
C2_OddKeyvalsPadded ==
    \A t \in Threads :
        (th[t].op = "log" /\ th[t].accepted /\ Len(th[t].args) % 2 = 1) =>
            LET kvs == th[t].kvs IN
            /\ Len(kvs) % 2 = 0
            /\ kvs[Len(kvs) - 1] = th[t].args[Len(th[t].args)]
            /\ kvs[Len(kvs)] = MISSING_VALUE
            /\ ~th[t].panicking
            /\ AtReturn(t) => th[t].wrote = 1

ReservedRank(k) ==
    CASE k = TimestampKey -> 1
      [] k = LevelKey -> 2
      [] k = CallerKey -> 3
      [] k = PrefixKey -> 4
      [] k = MessageKey -> 5
      [] OTHER -> 6

\* the reserved pairs res of the call of goroutine t are the present subset,
\* in the fixed order timestamp, level, caller, prefix, message
ReservedPrefixOk(t, res) ==
    LET n == Len(res) \div 2
        keys == {res[2 * i - 1] : i \in 1..n}
    IN /\ Len(res) % 2 = 0
       /\ \A i \in 1..n : res[2 * i - 1] \in ReservedKeys
       /\ \A i \in 1..n, j \in 1..n :
              i < j => ReservedRank(res[2 * i - 1]) < ReservedRank(res[2 * j - 1])
       /\ TimestampKey \in keys <=> cfg.timestamp
       /\ LevelKey \in keys <=> th[t].level # noLevel
       /\ CallerKey \in keys <=> cfg.caller
       /\ PrefixKey \in keys <=> cfg.prefix # <<>>
       /\ MessageKey \in keys <=> th[t].msg # Nil
       /\ \A i \in 1..n :
              res[2 * i] =
                 CASE res[2 * i - 1] = TimestampKey -> Time(cfg.timeFunc)
                   [] res[2 * i - 1] = LevelKey -> Lvl(th[t].level)
                   [] res[2 * i - 1] = CallerKey -> Str(CallerString)
                   [] res[2 * i - 1] = PrefixKey -> Str(cfg.prefix)
                   [] res[2 * i - 1] = MessageKey -> Str(Sprint(th[t].msg))

\* C3: the sequence an accepted call assembles is the present reserved
\* pairs in the order timestamp, level, caller, prefix, message, then the
\* logger's bound fields, then the per-call keyvals in call order.
C3_AssemblyOrder ==
    \A t \in Threads :
        (th[t].op = "log" /\ th[t].accepted) =>
            LET kvs == th[t].kvs
                nb == Len(cfg.keyvals)
                nc == Len(th[t].args)
                nr == Len(kvs) - nb - nc
            IN /\ nr >= 0
               /\ ReservedPrefixOk(t, SubSeq(kvs, 1, nr))
               /\ SubSeq(kvs, nr + 1, nr + nb) = cfg.keyvals
               /\ SubSeq(kvs, nr + nb + 1, Len(kvs)) = th[t].args

\* C3 witness: a call with a message and per-call fields, on a logger with
\* timestamp, caller, prefix and bound fields, has assembled its sequence.
C3_Witness ==
    \E t \in Threads :
        /\ th[t].op = "log" /\ th[t].accepted /\ th[t].pc = "format"
        /\ cfg.timestamp /\ cfg.caller /\ cfg.prefix # <<>>
        /\ cfg.keyvals # <<>> /\ th[t].msg # Nil /\ Len(th[t].args) = 2
        /\ th[t].level = WarnLevel
        /\ Len(th[t].kvs) = 14

\* Fatal has reached, or made, its call of os.Exit
AtExit(t) == th[t].fatal /\ th[t].pc \in {"exit", "exited"}

\* C7 as stated: in every execution of Fatal, under every threshold and
\* every sink, the fatal entry is written to the sink before the exit.
C7_FatalAlwaysWrites_Original ==
    \A t \in Threads :
        AtExit(t) => (th[t].wrote = 1 /\ sink # <<>>)

\* C7 as amended: when Fatal reaches os.Exit, its entry has been written
\* to the sink before the exit if and only if the sink is not the discard
\* sink and the threshold is at most FatalLevel (not OffLevel); with the
\* discard sink or OffLevel it exits without having written anything.
C7_FatalWritesBeforeExit ==
    \A t \in Threads :
        AtExit(t) =>
            IF cfg.w # "Discard" /\ cfg.level <= FatalLevel
            THEN /\ th[t].wrote = 1
                 /\ \E i \in 1..Len(sink) : sink[i] = th[t].line
                 /\ th[t].line = Flatten(textFormatter(th[t].kvs, cfg.timeFormat))
            ELSE /\ th[t].wrote = 0
                 /\ cfg.w = "Discard" => sink = <<>>

\* C7 witness: Fatal on a logger at threshold FatalLevel has written its
\* entry and the process has exited.
C7_Witness ==
    \E t \in Threads :
        /\ exited /\ th[t].pc = "exited" /\ th[t].wrote = 1
        /\ cfg.level = FatalLevel /\ Len(sink) = 1

-----------------------------------------------------------------------------
(* Claims C5 and C6, under Spec *)

\* C5: the logger's render buffer is empty whenever its lock is not held,
\* and every accepted call hands the sink exactly one write, which is the
\* complete line of that call alone.
C5_Serialized ==
    /\ mu.w = 0 => b = <<>>
    /\ \A t \in Threads :
          (AtReturn(t) /\ th[t].accepted) =>
              /\ th[t].wrote = 1
              /\ th[t].line = Flatten(textFormatter(th[t].kvs, cfg.timeFormat))

\* C6: a setter assigns its configuration field only while it holds the
\* logger's exclusive lock.
C6_SettersLocked ==
    \A t \in Threads : th[t].pc = "set" => mu.w = t

-----------------------------------------------------------------------------
(* The specifications of the components taken on their own.                *)
EscapeSpecInit ==
    EscapeInit /\ CallerIdle /\ RenderIdle /\ WithIdle /\ LoggerIdle

SpecEscape == EscapeSpecInit /\ [][EscapeCall]_vars

CallerSpecInit ==
    EscapeIdle /\ CallerInit /\ RenderIdle /\ WithIdle /\ LoggerIdle

CallerNext ==
    \/ \E fn \in Funcs \ {"main"}, line \in 1..MaxLine : CallFn(fn, line)
    \/ ReturnFn
    \/ \E line \in 1..MaxLine : Helper(line)
    \/ \E line \in 1..MaxLine : LogWithCaller(line)

SpecCaller == CallerSpecInit /\ [][CallerNext]_vars

RenderSpecInit ==
    EscapeIdle /\ CallerIdle /\ RenderInit /\ WithIdle /\ LoggerIdle

SpecRender == RenderSpecInit /\ [][RenderCall]_vars

WithSpecInit ==
    EscapeIdle /\ CallerIdle /\ RenderIdle /\ WithInit /\ LoggerIdle

WithNext == \E i \in 1..Len(loggers), kv \in WithArgs : With(i, kv)

SpecWith == WithSpecInit /\ [][WithNext]_vars

=============================================================================
